---- MODULE Spec2Model ----
(***************************************************************************)
(* TLSF (two-level segregated fit) allocator: the metadata engine of       *)
(* src/src/lib.rs (SpeedAllocator) and src/src/block.rs (Block, BlockMap). *)
(*                                                                         *)
(* Representation notes.                                                   *)
(*  - A block pointer (Option<NonNull<Block>>) is NoBlock (None), the id   *)
(*    of a block record, or Wild (a non-null bit pattern that is no block  *)
(*    record: what an uninitialised field may hold).                       *)
(*  - heap maps the ids of the records that System.alloc handed out and    *)
(*    System.dealloc has not taken back to their fields; following a       *)
(*    pointer to anything else is undefined behaviour: halt = "ub".        *)
(*  - A u32 bitmap word is the set of its set bit positions (0..31).       *)
(*  - bins and sub_bin_bitmap are held sparsely: an index that is absent   *)
(*    holds None, respectively the word 0.                                 *)
(*  - usize counters are held as their signed representative: -1 stands    *)
(*    for 2^64 - 1.  With overflow checks (debug profile) an overflowing   *)
(*    operation panics: halt = "panic"; without (release), it wraps.       *)
(***************************************************************************)
EXTENDS Integers, Sequences, FiniteSets, TLC

\* ------------------------------------------------------------ constants
LINEAR == 7
SUB_BIN == 5
BIN_COUNT == 64 - LINEAR
SUB_BIN_COUNT == 2 ^ SUB_BIN
MIN_ALLOC_SIZE == 2 ^ LINEAR
BLOCK_COUNT == (BIN_COUNT - 1) * SUB_BIN_COUNT + 1
WordBits == 32
UsizeBits == 64

NoBlock == 0
Wild == -1

\* --------------------------------------------------------------- bounds
\* the pool handed to the bootstrap, in units of MIN_ALLOC_SIZE
MaxPoolBlocks == 5
\* block records the host allocator can hand out before System.alloc fails
MaxBlocks == 5
\* allocate and deallocate calls made on one allocator
MaxCalls == 9
\* the same, for the runs that draw requests from the wide sets
MaxCallsWide == 4
\* the same, for the runs of allocate calls followed by deallocate calls
MaxCallsPhases == 6
\* the same, for the runs on the pool of the concrete scenarios
MaxCallsScenario == 4
\* calls of the free-list index in the runs on large blocks
MaxCallsBins == 4

PoolSize == MaxPoolBlocks * MIN_ALLOC_SIZE
BlockIds == 1 .. MaxBlocks
\* valid requests: the minimum size, with an alignment every block offset
\* satisfies and one that most block offsets do not
Sizes == {MIN_ALLOC_SIZE}
Alignments == {8, 4 * MIN_ALLOC_SIZE}
\* the wide sets add a size below the floor, larger classes, and an
\* alignment that is not a power of two
SizesWide == {64, MIN_ALLOC_SIZE, 200, 2 * MIN_ALLOC_SIZE, PoolSize - MIN_ALLOC_SIZE, PoolSize}
AlignmentsWide == {3, 8, 2 * MIN_ALLOC_SIZE}
\* what an uninitialised pointer field may hold
Junk == {NoBlock, Wild}
\* the mapper's inputs: sizes under every top bit e of a usize from LINEAR up.
\* The sub-bin field (bits e-SUB_BIN .. e-1) has its two ends set or clear or
\* all its bits set, and the bits below the sub-bin granularity are all
\* clear, the lowest set, or all set; with them four sizes below MIN_ALLOC_SIZE.
MapSizesAt(e) ==
  {({e} \cup mid) \cup low :
     mid \in (SUBSET {e - 1, e - SUB_BIN}) \cup {(e - SUB_BIN) .. (e - 1)},
     low \in {{}, {0}, 0 .. (e - SUB_BIN - 1)}}
MapSizes ==
  {{i \in 0 .. 30 : (n \div (2 ^ i)) % 2 = 1} : n \in {0, 1, 100, MIN_ALLOC_SIZE - 1}}
    \cup UNION {MapSizesAt(e) : e \in LINEAR .. (UsizeBits - 1)}
\* the block sizes tried against the request size s: those whose top bit is
\* the top bit of s or the next, and the smallest block
MapNear(s) ==
  LET top == CHOOSE i \in s \cup {LINEAR} : \A j \in s \cup {LINEAR} : j <= i
  IN UNION {MapSizesAt(e) : e \in {top, top + 1} \cap (LINEAR .. (UsizeBits - 1))}
       \cup {{LINEAR}}
\* the runs of the free-list index on large blocks: the sizes of the blocks
\* filed (128, 640, 2^37 and 2^39 bytes: bins 1, 3, 31 and 33) and the sizes
\* requested (128, 640, 2^36, 2^37 and 2^38 bytes: bins 1, 3, 30, 31 and 32)
BinSizes == {{LINEAR}, {LINEAR, 9}, {37}, {39}}
FindSizes == {{LINEAR}, {LINEAR, 9}, {36}, {37}, {38}}
\* the concrete scenarios: a pool of 4096 bytes, requests of 128 and 200 bytes
ScenarioPool == 32 * MIN_ALLOC_SIZE
ScenarioSizes == {MIN_ALLOC_SIZE, 200}
ScenarioAlignments == {8, 2 * MIN_ALLOC_SIZE}

VARIABLES heap, bins, bin_bitmap, sub_bin_bitmap, num_allocation, num_free_block,
          handles, pool_size, halt, overflow_checks, calls, last

vars == <<heap, bins, bin_bitmap, sub_bin_bitmap, num_allocation, num_free_block,
          handles, pool_size, halt, overflow_checks, calls, last>>

\* ------------------------------------------------------ bit arithmetic
RECURSIVE BitAnd(_, _)
BitAnd(a, b) ==
  IF a = 0 \/ b = 0 THEN 0
  ELSE (a % 2) * (b % 2) + 2 * BitAnd(a \div 2, b \div 2)

RECURSIVE BitOr(_, _)
BitOr(a, b) ==
  IF a = 0 THEN b
  ELSE IF b = 0 THEN a
  ELSE (IF a % 2 = 1 \/ b % 2 = 1 THEN 1 ELSE 0) + 2 * BitOr(a \div 2, b \div 2)

\* a & !b
RECURSIVE BitAndNot(_, _)
BitAndNot(a, b) ==
  IF a = 0 THEN 0
  ELSE (a % 2) * (1 - (b % 2)) + 2 * BitAndNot(a \div 2, b \div 2)

\* 63 - mask.leading_zeros(): the index of the most significant set bit
RECURSIVE bit_scan_msb(_)
bit_scan_msb(mask) == IF mask <= 1 THEN 0 ELSE 1 + bit_scan_msb(mask \div 2)

\* align_forward without the - 1: an aligned offset moves to the next multiple
align_forwardPastAligned(offset, alignment) == BitAndNot(offset + alignment, alignment - 1)

align_forward(offset, alignment) == BitAndNot(offset + alignment - 1, alignment - 1)

is_pow_two(num) == BitAnd(num, num - 1) = 0 /\ num > 0

\* u32 words as sets of bit positions
ShiftOverflows(n) == n >= WordBits
\* 1 << n with the shift amount masked as the release profile does
OneShl(n) == {n % WordBits}
\* !0 << n
OnesShl(n) == (n % WordBits) .. (WordBits - 1)
trailing_zeros(word) ==
  IF word = {} THEN WordBits ELSE CHOOSE i \in word : \A j \in word : i <= j

\* ----------------------------------------------------------- size mapper
binmap_down(size) ==
  LET bin_idx == bit_scan_msb(BitOr(size, MIN_ALLOC_SIZE))
      log2_subbin_size == bin_idx - SUB_BIN
      sub_bin_idx == size \div (2 ^ log2_subbin_size)
      b == bin_idx - LINEAR + (sub_bin_idx \div (2 ^ SUB_BIN))
      s == BitAnd(sub_bin_idx, SUB_BIN_COUNT - 1)
  IN [bin_idx |-> b, sub_bin_idx |-> s, rounded_size |-> size,
      idx |-> b * SUB_BIN_COUNT + s]

binmap_up(size) ==
  LET bin_idx == bit_scan_msb(BitOr(size, MIN_ALLOC_SIZE))
      log2_subbin_size == bin_idx - SUB_BIN
      next_subbin_offset == (2 ^ log2_subbin_size) - 1
      rounded == size + next_subbin_offset
      sub_bin_idx == rounded \div (2 ^ log2_subbin_size)
      b == bin_idx - LINEAR + (sub_bin_idx \div (2 ^ SUB_BIN))
      s == BitAnd(sub_bin_idx, SUB_BIN_COUNT - 1)
  IN [bin_idx |-> b, sub_bin_idx |-> s,
      rounded_size |-> BitAndNot(rounded, next_subbin_offset),
      idx |-> b * SUB_BIN_COUNT + s]

\* ------------------------------------------- size mapper, full usize range
\* A usize beyond the model's integers is the set of the positions of its set
\* bits (0 .. UsizeBits - 1), as the u32 words are.

\* the usize of the model integer n
Wide(n) == {i \in 0 .. 30 : (n \div (2 ^ i)) % 2 = 1}

\* the model integer of a usize below 2^31
RECURSIVE Narrow(_)
Narrow(w) ==
  IF w = {} THEN 0
  ELSE LET i == CHOOSE k \in w : TRUE IN (2 ^ i) + Narrow(w \ {i})

\* a >> n
WideShr(a, n) == {i - n : i \in {k \in a : k >= n}}

\* a + b with the carry out of the top bit as bit UsizeBits
RECURSIVE WideAddFrom(_, _, _, _)
WideAddFrom(a, b, i, carry) ==
  IF i = UsizeBits THEN (IF carry = 1 THEN {UsizeBits} ELSE {})
  ELSE LET n == (IF i \in a THEN 1 ELSE 0) + (IF i \in b THEN 1 ELSE 0) + carry
       IN (IF n % 2 = 1 THEN {i} ELSE {}) \cup WideAddFrom(a, b, i + 1, n \div 2)

\* a + b, wrapping at 2^64
WideAdd(a, b) == WideAddFrom(a, b, 0, 0) \ {UsizeBits}

\* a + b does not fit a usize
WideAddOverflows(a, b) == UsizeBits \in WideAddFrom(a, b, 0, 0)

\* a >= b
WideGeq(a, b) ==
  a = b \/ \E i \in a \ b : \A j \in b \ a : j < i

\* bit_scan_msb of a usize that is not 0
bit_scan_msb64(mask) == CHOOSE i \in mask : \A j \in mask : j <= i

\* binmap_down without the carry of the sub-bin field into the bin index
binmap_down64NoCarry(size) ==
  LET bin_idx == bit_scan_msb64(size \cup Wide(MIN_ALLOC_SIZE))
      log2_subbin_size == bin_idx - SUB_BIN
      sub_bin_idx == Narrow(WideShr(size, log2_subbin_size))
      b == bin_idx - LINEAR
      s == BitAnd(sub_bin_idx, SUB_BIN_COUNT - 1)
  IN [bin_idx |-> b, sub_bin_idx |-> s, rounded_size |-> size,
      idx |-> b * SUB_BIN_COUNT + s]

binmap_down64(size) ==
  LET bin_idx == bit_scan_msb64(size \cup Wide(MIN_ALLOC_SIZE))
      log2_subbin_size == bin_idx - SUB_BIN
      sub_bin_idx == Narrow(WideShr(size, log2_subbin_size))
      b == bin_idx - LINEAR + (sub_bin_idx \div (2 ^ SUB_BIN))
      s == BitAnd(sub_bin_idx, SUB_BIN_COUNT - 1)
  IN [bin_idx |-> b, sub_bin_idx |-> s, rounded_size |-> size,
      idx |-> b * SUB_BIN_COUNT + s]

\* binmap_up with the mask applied to size instead of rounded
binmap_up64MasksSize(size) ==
  LET bin_idx == bit_scan_msb64(size \cup Wide(MIN_ALLOC_SIZE))
      log2_subbin_size == bin_idx - SUB_BIN
      next_subbin_offset == 0 .. (log2_subbin_size - 1)
      rounded == WideAdd(size, next_subbin_offset)
      sub_bin_idx == Narrow(WideShr(rounded, log2_subbin_size))
      b == bin_idx - LINEAR + (sub_bin_idx \div (2 ^ SUB_BIN))
      s == BitAnd(sub_bin_idx, SUB_BIN_COUNT - 1)
  IN [bin_idx |-> b, sub_bin_idx |-> s,
      rounded_size |-> size \ next_subbin_offset,
      idx |-> b * SUB_BIN_COUNT + s]

binmap_up64(size) ==
  LET bin_idx == bit_scan_msb64(size \cup Wide(MIN_ALLOC_SIZE))
      log2_subbin_size == bin_idx - SUB_BIN
      next_subbin_offset == 0 .. (log2_subbin_size - 1)
      rounded == WideAdd(size, next_subbin_offset)
      sub_bin_idx == Narrow(WideShr(rounded, log2_subbin_size))
      b == bin_idx - LINEAR + (sub_bin_idx \div (2 ^ SUB_BIN))
      s == BitAnd(sub_bin_idx, SUB_BIN_COUNT - 1)
  IN [bin_idx |-> b, sub_bin_idx |-> s,
      rounded_size |-> rounded \ next_subbin_offset,
      idx |-> b * SUB_BIN_COUNT + s]

\* size + next_subbin_offset in binmap_up does not fit a usize
binmap_up64Overflows(size) ==
  LET bin_idx == bit_scan_msb64(size \cup Wide(MIN_ALLOC_SIZE))
      log2_subbin_size == bin_idx - SUB_BIN
  IN WideAddOverflows(size, 0 .. (log2_subbin_size - 1))

\* -------------------------------------------------- allocator state
\* The allocator's fields and the block records, threaded through the
\* statements of one call.  Once halt is set the remaining statements of
\* the call do not run.
Self ==
  [heap |-> heap, bins |-> bins, bin_bitmap |-> bin_bitmap,
   sub_bin_bitmap |-> sub_bin_bitmap, num_allocation |-> num_allocation,
   num_free_block |-> num_free_block, halt |-> halt]

\* statement sequencing: Op applied to the value of v
With(v, Op(_)) == CHOOSE r \in {Op(x) : x \in {v}} : TRUE

Running(st) == st.halt = "none"
Halt(st, why) == IF Running(st) THEN [st EXCEPT !.halt = why] ELSE st
Valid(st, p) == p \in DOMAIN st.heap

\* (*p).field = v
WriteField(st, p, field, v) ==
  IF ~Running(st) THEN st
  ELSE IF ~Valid(st, p) THEN Halt(st, "ub")
  ELSE [st EXCEPT !.heap[p][field] = v]

\* self.bins[idx]
BinsGet(st, idx) == IF idx \in DOMAIN st.bins THEN st.bins[idx] ELSE NoBlock
\* self.bins[idx] = v
BinsSet(st, idx, v) ==
  LET dom == IF v = NoBlock THEN DOMAIN st.bins \ {idx} ELSE DOMAIN st.bins \cup {idx}
  IN [st EXCEPT !.bins = [k \in dom |-> IF k = idx THEN v ELSE st.bins[k]]]

\* self.sub_bin_bitmap[i]
SubGet(st, i) == IF i \in DOMAIN st.sub_bin_bitmap THEN st.sub_bin_bitmap[i] ELSE {}
\* self.sub_bin_bitmap[i] = word
SubSet(st, i, word) ==
  LET dom == IF word = {} THEN DOMAIN st.sub_bin_bitmap \ {i}
             ELSE DOMAIN st.sub_bin_bitmap \cup {i}
  IN [st EXCEPT !.sub_bin_bitmap =
        [k \in dom |-> IF k = i THEN word ELSE st.sub_bin_bitmap[k]]]

\* x += 1 and x -= 1 on a usize counter
IncCounter(st, counter) ==
  IF ~Running(st) THEN st
  ELSE IF st[counter] = -1
       THEN (IF overflow_checks THEN Halt(st, "panic") ELSE [st EXCEPT ![counter] = 0])
       ELSE [st EXCEPT ![counter] = @ + 1]

DecCounter(st, counter) ==
  IF ~Running(st) THEN st
  ELSE IF st[counter] = 0
       THEN (IF overflow_checks THEN Halt(st, "panic") ELSE [st EXCEPT ![counter] = -1])
       ELSE [st EXCEPT ![counter] = @ - 1]

\* ------------------------------------------------------------- block.rs
is_free(st, b) == st.heap[b].prev_free = NoBlock

mark_used(st, b, adjustment) ==
  IF ~Running(st) THEN st
  ELSE [st EXCEPT !.heap[b].prev_free = b,
                  !.heap[b].next_free = b,
                  !.heap[b].offset = @ + adjustment]

mark_free(st, b) ==
  IF ~Running(st) THEN st
  ELSE IF ~Valid(st, b) THEN Halt(st, "ub")
  ELSE [st EXCEPT !.heap[b].prev_free = NoBlock, !.heap[b].next_free = NoBlock]

\* ------------------------------------------------------ free-list index
\* self.bin_bitmap |= 1 << bin_idx; self.sub_bin_bitmap[bin_idx] |= 1 << sub_bin_idx
SetBits(st, map) ==
  IF ~Running(st) THEN st
  ELSE IF ShiftOverflows(map.bin_idx) /\ overflow_checks THEN Halt(st, "panic")
  ELSE SubSet([st EXCEPT !.bin_bitmap = @ \cup OneShl(map.bin_idx)],
              map.bin_idx, SubGet(st, map.bin_idx) \cup OneShl(map.sub_bin_idx))

\* the statements of insert_free_block after the call of binmap_down
FileBlock(st, block, map) ==
  LET idx == map.bin_idx * SUB_BIN_COUNT + map.sub_bin_idx
      current == BinsGet(st, idx)
  IN IF idx >= BLOCK_COUNT THEN Halt(st, "panic")
     ELSE
       With([st EXCEPT !.heap[block].prev_free = NoBlock,
                       !.heap[block].next_free = current], LAMBDA s1 :
       With(IF current # NoBlock THEN WriteField(s1, current, "prev_free", block)
            ELSE s1, LAMBDA s2 :
       With(IF Running(s2) THEN BinsSet(s2, idx, block) ELSE s2, LAMBDA s3 :
       With(SetBits(s3, map), LAMBDA s4 :
       IncCounter(s4, "num_free_block")))))

insert_free_block(st, block) ==
  IF ~Running(st) THEN st
  ELSE IF ~Valid(st, block) THEN Halt(st, "ub")
  ELSE FileBlock(st, block, binmap_down(st.heap[block].size))

\* insert_free_block of a block whose size is held as a full-range usize
insert_free_block64(st, block) ==
  IF ~Running(st) THEN st
  ELSE IF ~Valid(st, block) THEN Halt(st, "ub")
  ELSE FileBlock(st, block, binmap_down64(st.heap[block].size))

\* self.sub_bin_bitmap[bin_idx] &= !(1 << sub_bin_idx), and the bin's bit with it
\* when the word is then 0
ClearBits(st, block_map) ==
  LET w == SubGet(st, block_map.bin_idx) \ OneShl(block_map.sub_bin_idx)
  IN With(SubSet(st, block_map.bin_idx, w), LAMBDA a :
       IF w # {} THEN a
       ELSE IF ShiftOverflows(block_map.bin_idx) /\ overflow_checks THEN Halt(a, "panic")
       ELSE [a EXCEPT !.bin_bitmap = @ \ OneShl(block_map.bin_idx)])

\* UnlinkHead without the next.is_none() test: the bits are cleared with every head
UnlinkHeadAlwaysClears(st, block, block_map, next) ==
  IF ~Running(st) THEN st
  ELSE IF block_map.idx >= BLOCK_COUNT THEN Halt(st, "panic")
  ELSE IF BinsGet(st, block_map.idx) # block THEN st
  ELSE With(ClearBits(st, block_map), LAMBDA c1 :
         IF Running(c1) THEN BinsSet(c1, block_map.idx, next) ELSE c1)

\* the head of the class: its bits when it has no successor, then the head pointer
UnlinkHead(st, block, block_map, next) ==
  IF ~Running(st) THEN st
  ELSE IF block_map.idx >= BLOCK_COUNT THEN Halt(st, "panic")
  ELSE IF BinsGet(st, block_map.idx) # block THEN st
  ELSE With(IF next = NoBlock THEN ClearBits(st, block_map) ELSE st, LAMBDA c1 :
         IF Running(c1) THEN BinsSet(c1, block_map.idx, next) ELSE c1)

remove_free_block(st, block, block_map) ==
  IF ~Running(st) THEN st
  ELSE IF ~Valid(st, block) THEN Halt(st, "ub")
  ELSE
    LET next == st.heap[block].next_free
        prev == st.heap[block].prev_free
    IN With(IF next # NoBlock THEN WriteField(st, next, "prev_free", prev) ELSE st,
         LAMBDA s1 :
       With(IF prev # NoBlock THEN WriteField(s1, prev, "next_free", next) ELSE s1,
         LAMBDA s2 :
       With(UnlinkHead(s2, block, block_map, next), LAMBDA s3 :
       DecCounter(s3, "num_free_block"))))

\* ---------------------------------------------------------- bitmap index
Found(b, s, rounded) ==
  [ok |-> TRUE, halt |-> "none",
   map |-> [bin_idx |-> b, sub_bin_idx |-> s, rounded_size |-> rounded,
            idx |-> b * SUB_BIN_COUNT + s]]

NotFound(why) ==
  [ok |-> FALSE, halt |-> why,
   map |-> [bin_idx |-> 0, sub_bin_idx |-> 0, rounded_size |-> 0, idx |-> 0]]

\* The statements of find_free_block after the call of binmap_up.
\* Ok(BlockMap) is Found(..); Err("OutOfFreeBlock") is NotFound("none"); a panic
\* inside (index out of bounds, shift overflow) is NotFound("panic").
FindFrom(st, map) ==
  LET word == SubGet(st, map.bin_idx) \cap OnesShl(map.sub_bin_idx)
      bitmap == st.bin_bitmap \cap OnesShl(map.bin_idx + 1)
  IN IF map.bin_idx >= BIN_COUNT THEN NotFound("panic")
     ELSE IF word # {} THEN Found(map.bin_idx, trailing_zeros(word), map.rounded_size)
     ELSE IF ShiftOverflows(map.bin_idx + 1) /\ overflow_checks THEN NotFound("panic")
     ELSE IF bitmap = {} THEN NotFound("none")
     ELSE Found(trailing_zeros(bitmap), trailing_zeros(SubGet(st, trailing_zeros(bitmap))),
                map.rounded_size)

find_free_block(st, size) == FindFrom(st, binmap_up(size))

\* find_free_block for a request size held as a full-range usize
find_free_block64(st, size) ==
  IF binmap_up64Overflows(size) /\ overflow_checks THEN NotFound("panic")
  ELSE FindFrom(st, binmap_up64(size))

\* -------------------------------------------------- host allocator
\* System.alloc(Layout::new::<Block>()): a record not in use, null when none is left
SystemAlloc(st) ==
  IF BlockIds \subseteq DOMAIN st.heap THEN NoBlock
  ELSE CHOOSE b \in BlockIds \ DOMAIN st.heap :
         \A c \in BlockIds \ DOMAIN st.heap : b <= c

\* System.dealloc(p, ...)
SystemDealloc(st, p) ==
  IF ~Running(st) THEN st
  ELSE IF ~Valid(st, p) THEN Halt(st, "ub")
  ELSE [st EXCEPT !.heap = [b \in DOMAIN st.heap \ {p} |-> st.heap[b]]]

\* ------------------------------------------------- allocation protocol
Used(st, split) == [st |-> st, ok |-> Running(st), split |-> IF Running(st) THEN split ELSE NoBlock]
Failed(st) == [st |-> st, ok |-> FALSE, split |-> NoBlock]

\* the split of use_free_block: the new record and its place in the physical chain.
\* junk is what the fields of the new record that the code does not write hold.
SplitBlock(st, block, new_block, size_with_adjustment, junk) ==
  LET B == st.heap[block]
      rec == [size |-> B.size - size_with_adjustment,
              offset |-> B.offset + size_with_adjustment,
              next_free |-> junk, prev_free |-> junk,
              next_physical |-> junk, prev_physical |-> junk]
  IN With([st EXCEPT !.heap = [b \in DOMAIN st.heap \cup {new_block} |->
                                 IF b = new_block THEN rec ELSE st.heap[b]]], LAMBDA s0 :
     With(IF B.next_physical # NoBlock
          THEN WriteField(s0, B.next_physical, "prev_physical", new_block)
          ELSE s0, LAMBDA s1 :
     With(IF B.next_physical # NoBlock
          THEN WriteField(s1, new_block, "next_physical", B.next_physical)
          ELSE s1, LAMBDA s2 :
     With(WriteField(s2, new_block, "prev_physical", block), LAMBDA s3 :
     WriteField(s3, block, "next_physical", new_block)))))

\* (*block).offset = aligned_offset; (*block).size = size; (*block).mark_used(adjustment)
TakeBlock(st, block, aligned_offset, size, adjustment) ==
  With(WriteField(st, block, "offset", aligned_offset), LAMBDA s1 :
  With(WriteField(s1, block, "size", size), LAMBDA s2 :
  mark_used(s2, block, adjustment)))

\* Ok(Some(t)) is Used(st, t); Ok(None) is Used(st, NoBlock); Err(_) is Failed(st)
use_free_block(st, block, size, alignment, junk) ==
  IF ~Running(st) THEN Failed(st)
  ELSE IF ~Valid(st, block) THEN Failed(Halt(st, "ub"))
  ELSE IF ~is_free(st, block) THEN Failed(st)
  ELSE
    LET B == st.heap[block]
        aligned_offset == align_forward(B.offset, alignment)
        adjustment == aligned_offset - B.offset
        size_with_adjustment == size + adjustment
        new_block == SystemAlloc(st)
    IN IF size_with_adjustment > B.size THEN Failed(st)
       ELSE IF B.size >= size_with_adjustment + MIN_ALLOC_SIZE
       THEN IF new_block = NoBlock THEN Failed(st)
            ELSE With(SplitBlock(st, block, new_block, size_with_adjustment, junk),
                   LAMBDA s1 :
                 With(TakeBlock(s1, block, aligned_offset, size, adjustment), LAMBDA s2 :
                 Used(s2, new_block)))
       ELSE With(TakeBlock(st, block, aligned_offset, size, adjustment), LAMBDA s2 :
            Used(s2, NoBlock))

\* the previous physical neighbour pp is absorbed into block
AbsorbPrev(st, block, pp) ==
  IF ~Running(st) THEN st
  ELSE
    LET P == st.heap[pp]
    IN With([st EXCEPT !.heap[block].offset = P.offset,
                       !.heap[block].size = @ + P.size,
                       !.heap[block].prev_physical = P.prev_physical], LAMBDA s2 :
       With(IF P.prev_physical # NoBlock
            THEN WriteField(s2, P.prev_physical, "next_physical", block)
            ELSE s2, LAMBDA s3 :
       SystemDealloc(s3, pp)))

\* the first half of merge_free_block: the previous physical neighbour
MergePrev(st, block) ==
  IF ~Running(st) THEN st
  ELSE
    LET pp == st.heap[block].prev_physical
    IN IF pp = NoBlock THEN st
       ELSE IF ~Valid(st, pp) THEN Halt(st, "ub")
       ELSE IF ~is_free(st, pp) THEN st
       ELSE With(remove_free_block(st, pp, binmap_down(st.heap[pp].size)), LAMBDA s1 :
            AbsorbPrev(s1, block, pp))

\* the next physical neighbour np is absorbed into block
AbsorbNext(st, block, np) ==
  IF ~Running(st) THEN st
  ELSE
    LET N == st.heap[np]
    IN With([st EXCEPT !.heap[block].size = @ + N.size,
                       !.heap[block].next_physical = N.next_physical], LAMBDA s2 :
       With(IF N.next_physical # NoBlock
            THEN WriteField(s2, N.next_physical, "prev_physical", block)
            ELSE s2, LAMBDA s3 :
       SystemDealloc(s3, np)))

\* the second half of merge_free_block: the next physical neighbour
MergeNext(st, block) ==
  IF ~Running(st) THEN st
  ELSE
    LET np == st.heap[block].next_physical
    IN IF np = NoBlock THEN st
       ELSE IF ~Valid(st, np) THEN Halt(st, "ub")
       ELSE IF ~is_free(st, np) THEN st
       ELSE With(remove_free_block(st, np, binmap_down(st.heap[np].size)), LAMBDA s1 :
            AbsorbNext(s1, block, np))

merge_free_block(st, block) ==
  With(MergePrev(st, block), LAMBDA s1 : MergeNext(s1, block))

Returned(st, ret, idx, succ) ==
  [st |-> st, ret |-> IF Running(st) THEN ret ELSE NoBlock, idx |-> idx, succ |-> succ]

\* the statements of allocate after the block was removed from its free list
AllocateTail(u, block, idx, succ) ==
  IF ~u.ok THEN Returned(u.st, NoBlock, idx, succ)
  ELSE With(IF u.split # NoBlock THEN insert_free_block(u.st, u.split) ELSE u.st,
         LAMBDA s2 :
       With(IncCounter(s2, "num_allocation"), LAMBDA s3 :
       Returned(s3, block, idx, succ)))

\* Some(ptr) is ret = the block; None is ret = NoBlock.  idx is the class
\* find_free_block selected (-1: none) and succ the next_free of its head.
allocate(st, size, alignment, junk) ==
  IF ~is_pow_two(alignment) /\ size < MIN_ALLOC_SIZE
  THEN Returned(st, NoBlock, -1, NoBlock)
  ELSE
    With(find_free_block(st, size), LAMBDA f :
      IF f.halt # "none" THEN Returned(Halt(st, f.halt), NoBlock, -1, NoBlock)
      ELSE IF ~f.ok THEN Returned(st, NoBlock, -1, NoBlock)
      ELSE
        LET block == BinsGet(st, f.map.idx)
            succ == IF Valid(st, block) THEN st.heap[block].next_free ELSE NoBlock
        IN IF block = NoBlock THEN Returned(Halt(st, "panic"), NoBlock, f.map.idx, NoBlock)
           ELSE With(remove_free_block(st, block, f.map), LAMBDA s1 :
                With(use_free_block(s1, block, size, alignment, junk), LAMBDA u :
                AllocateTail(u, block, f.map.idx, succ))))

deallocate(st, ptr) ==
  With(mark_free(st, ptr), LAMBDA s1 :
  With(merge_free_block(s1, ptr), LAMBDA s2 :
  With(insert_free_block(s2, ptr), LAMBDA s3 :
  DecCounter(s3, "num_allocation"))))

\* ---------------------------------------------------------------- state
Install(st) ==
  /\ heap' = st.heap
  /\ bins' = st.bins
  /\ bin_bitmap' = st.bin_bitmap
  /\ sub_bin_bitmap' = st.sub_bin_bitmap
  /\ num_allocation' = st.num_allocation
  /\ num_free_block' = st.num_free_block
  /\ halt' = st.halt

\* the last public call: its arguments and what it returned
Call(op, size, alignment, ret, idx, succ) ==
  [op |-> op, size |-> size, alignment |-> alignment, ret |-> ret,
   idx |-> idx, succ |-> succ]

\* SpeedAllocator::new(), built under either profile
Init ==
  /\ heap = << >>
  /\ bins = << >>
  /\ bin_bitmap = {}
  /\ sub_bin_bitmap = << >>
  /\ num_allocation = 0
  /\ num_free_block = 0
  /\ handles = {}
  /\ pool_size = 0
  /\ halt = "none"
  /\ overflow_checks \in BOOLEAN
  /\ calls = 0
  /\ last = Call("new", 0, 0, NoBlock, -1, NoBlock)

\* The pool is handed over: one block spanning [0, size) is filed as free.
bootstrap(st, size) ==
  LET b == SystemAlloc(st)
      rec == [size |-> size, offset |-> 0, next_free |-> NoBlock, prev_free |-> NoBlock,
              next_physical |-> NoBlock, prev_physical |-> NoBlock]
  IN With([st EXCEPT !.heap = [x \in {b} |-> rec]], LAMBDA s1 : insert_free_block(s1, b))

Bootstrap ==
  /\ halt = "none"
  /\ pool_size = 0
  /\ \E st \in {bootstrap(Self, PoolSize)} : Install(st)
  /\ pool_size' = PoolSize
  /\ last' = Call("bootstrap", PoolSize, 0, NoBlock, -1, NoBlock)
  /\ UNCHANGED <<handles, overflow_checks, calls>>

AllocateFrom(sizes, alignments, budget) ==
  /\ halt = "none"
  /\ calls < budget
  /\ \E size \in sizes, alignment \in alignments, junk \in Junk :
       \E r \in {allocate(Self, size, alignment, junk)} :
          /\ Install(r.st)
          /\ handles' = IF r.ret # NoBlock THEN handles \cup {r.ret} ELSE handles
          /\ last' = Call("allocate", size, alignment, r.ret, r.idx, r.succ)
  /\ calls' = calls + 1
  /\ UNCHANGED <<pool_size, overflow_checks>>

\* deallocate is called on blocks allocate returned and that were not yet given back
DeallocateWithin(budget) ==
  /\ halt = "none"
  /\ calls < budget
  /\ \E ptr \in handles :
       \E st \in {deallocate(Self, ptr)} :
       /\ Install(st)
       /\ handles' = handles \ {ptr}
       /\ last' = Call("deallocate", 0, 0, ptr, -1, NoBlock)
  /\ calls' = calls + 1
  /\ UNCHANGED <<pool_size, overflow_checks>>

Allocate == AllocateFrom(Sizes, Alignments, MaxCalls)
Deallocate == DeallocateWithin(MaxCalls)

Next == Bootstrap \/ Allocate \/ Deallocate

Spec == Init /\ [][Next]_vars

\* requests drawn from the wide sets, valid or not
AllocateWide == AllocateFrom(SizesWide, AlignmentsWide, MaxCallsWide)
DeallocateWide == DeallocateWithin(MaxCallsWide)

NextWide == Bootstrap \/ AllocateWide \/ DeallocateWide

SpecWide == Init /\ [][NextWide]_vars

\* N successful allocate calls with valid requests, then deallocate calls only
SizesValid == {size \in SizesWide : size >= MIN_ALLOC_SIZE}
AlignmentsValid == {alignment \in AlignmentsWide : is_pow_two(alignment)}

AllocatePhase ==
  /\ last.op \in {"bootstrap", "allocate"}
  /\ AllocateFrom(SizesValid, AlignmentsValid, MaxCallsPhases)
  /\ last'.ret # NoBlock

DeallocatePhase == DeallocateWithin(MaxCallsPhases)

NextPhases == Bootstrap \/ AllocatePhase \/ DeallocatePhase

SpecPhases == Init /\ [][NextPhases]_vars

\* the concrete scenarios: a pool of ScenarioPool bytes
BootstrapScenario ==
  /\ halt = "none"
  /\ pool_size = 0
  /\ \E st \in {bootstrap(Self, ScenarioPool)} : Install(st)
  /\ pool_size' = ScenarioPool
  /\ last' = Call("bootstrap", ScenarioPool, 0, NoBlock, -1, NoBlock)
  /\ UNCHANGED <<handles, overflow_checks, calls>>

AllocateScenario == AllocateFrom(ScenarioSizes, ScenarioAlignments, MaxCallsScenario)
DeallocateScenario == DeallocateWithin(MaxCallsScenario)

\* what a call of the allocate, deallocate, allocate again scenario leaves in last:
\* the request, the block, and the offset the first allocate recorded in it
Again(op, size, alignment, ret, first_offset) ==
  [op |-> op, size |-> size, alignment |-> alignment, ret |-> ret,
   first_offset |-> first_offset]

\* deallocate of the block the last allocate returned
DeallocateLast ==
  /\ halt = "none"
  /\ calls < MaxCallsScenario
  /\ last.op = "allocate"
  /\ last.ret \in handles
  /\ \E st \in {deallocate(Self, last.ret)} : Install(st)
  /\ handles' = handles \ {last.ret}
  /\ last' = Again("deallocate_last", last.size, last.alignment, last.ret,
                   heap[last.ret].offset)
  /\ calls' = calls + 1
  /\ UNCHANGED <<pool_size, overflow_checks>>

\* the same request once more, right after DeallocateLast
AllocateAgain ==
  /\ halt = "none"
  /\ calls < MaxCallsScenario
  /\ last.op = "deallocate_last"
  /\ \E junk \in Junk :
       \E r \in {allocate(Self, last.size, last.alignment, junk)} :
          /\ Install(r.st)
          /\ handles' = IF r.ret # NoBlock THEN handles \cup {r.ret} ELSE handles
          /\ last' = Again("allocate_again", last.size, last.alignment, r.ret,
                           last.first_offset)
  /\ calls' = calls + 1
  /\ UNCHANGED <<pool_size, overflow_checks>>

NextScenario ==
  BootstrapScenario \/ AllocateScenario \/ DeallocateScenario \/ DeallocateLast
    \/ AllocateAgain

SpecScenario == Init /\ [][NextScenario]_vars

\* binmap_up(size), binmap_down of its rounded size, and binmap_down(block_size)
Mapped(size, block_size) ==
  [op |-> "binmap", size |-> size, block_size |-> block_size,
   up |-> binmap_up64(size),
   round |-> binmap_down64(binmap_up64(size).rounded_size),
   down |-> binmap_down64(block_size)]

\* the size mapper applied to a request size and a block size, on the
\* allocator as constructed (the mapper reads no field of it); the addition
\* in binmap_up panics under overflow checks when the sum does not fit
Binmap ==
  /\ halt = "none"
  /\ last.op = "new"
  /\ \E size \in MapSizes : \E block_size \in MapNear(size) :
       IF overflow_checks /\ binmap_up64Overflows(size)
       THEN /\ halt' = "panic"
            /\ last' = [op |-> "binmap_up", size |-> size]
       ELSE /\ halt' = halt
            /\ last' = Mapped(size, block_size)
  /\ UNCHANGED <<heap, bins, bin_bitmap, sub_bin_bitmap, num_allocation,
                 num_free_block, handles, pool_size, overflow_checks, calls>>

NextMap == Binmap

SpecMap == Init /\ [][NextMap]_vars

\* ---------------------------------------------- the index on large blocks
\* The free-list index applied to blocks of sizes across the usize range:
\* insert_free_block on a block of a given size, remove_free_block on a block
\* that is in a free list, and find_free_block for a given request size.

\* a record as the split of use_free_block or the bootstrap creates it
FreeRecord(size) ==
  [size |-> size, offset |-> 0, next_free |-> NoBlock, prev_free |-> NoBlock,
   next_physical |-> NoBlock, prev_physical |-> NoBlock]

InsertFreeBlock ==
  /\ halt = "none"
  /\ calls < MaxCallsBins
  /\ SystemAlloc(Self) # NoBlock
  /\ \E size \in BinSizes :
       \E st \in {insert_free_block64(
                    [Self EXCEPT !.heap = [b \in DOMAIN heap \cup {SystemAlloc(Self)} |->
                        IF b \in DOMAIN heap THEN heap[b] ELSE FreeRecord(size)]],
                    SystemAlloc(Self))} :
          /\ Install(st)
          /\ last' = [op |-> "insert_free_block", block |-> SystemAlloc(Self),
                      map |-> binmap_down64(size)]
  /\ calls' = calls + 1
  /\ UNCHANGED <<handles, pool_size, overflow_checks>>

\* remove_free_block and the release of the record, as merge_free_block does
RemoveFreeBlock ==
  /\ halt = "none"
  /\ calls < MaxCallsBins
  /\ \E block \in DOMAIN heap :
       \E st \in {SystemDealloc(
                    remove_free_block(Self, block, binmap_down64(heap[block].size)),
                    block)} :
          /\ Install(st)
          /\ last' = [op |-> "remove_free_block", block |-> block,
                      map |-> binmap_down64(heap[block].size)]
  /\ calls' = calls + 1
  /\ UNCHANGED <<handles, pool_size, overflow_checks>>

\* find_free_block writes no field of the allocator
FindFreeBlock ==
  /\ halt = "none"
  /\ calls < MaxCallsBins
  /\ \E size \in FindSizes :
       \E f \in {find_free_block64(Self, size)} :
          /\ halt' = f.halt
          /\ last' = [op |-> "find_free_block", size |-> size,
                      from |-> binmap_up64(size).idx, ok |-> f.ok, idx |-> f.map.idx]
  /\ calls' = calls + 1
  /\ UNCHANGED <<heap, bins, bin_bitmap, sub_bin_bitmap, num_allocation,
                 num_free_block, handles, pool_size, overflow_checks>>

NextBins == InsertFreeBlock \/ RemoveFreeBlock \/ FindFreeBlock

SpecBins == Init /\ [][NextBins]_vars

\* ----------------------------------------------------------------- views
Live == DOMAIN heap

\* the blocks met from p through next_free (a pointer to no record ends the walk)
RECURSIVE FreeWalk(_, _)
FreeWalk(p, n) ==
  IF p = NoBlock \/ n = 0 THEN << >>
  ELSE IF p \notin Live THEN <<p>>
  ELSE <<p>> \o FreeWalk(heap[p].next_free, n - 1)

FreeList(k) == FreeWalk(bins[k], MaxBlocks + 1)
FreeLists == [k \in DOMAIN bins |-> FreeList(k)]
FreeMembers == UNION {{FreeList(k)[i] : i \in 1 .. Len(FreeList(k))} : k \in DOMAIN bins}

\* the blocks met from p through next_physical; the walk ends at the first
\* pointer that is no block record
RECURSIVE PhysWalk(_, _)
PhysWalk(p, n) ==
  IF p \notin Live \/ n = 0 THEN << >>
  ELSE <<p>> \o PhysWalk(heap[p].next_physical, n - 1)

PhysFirst == {b \in Live : heap[b].prev_physical = NoBlock}

Partitions(chain) ==
  /\ Len(chain) = Cardinality(Live)
  /\ \A i \in 1 .. Len(chain) : chain[i] \in Live /\ heap[chain[i]].size > 0
  /\ Len(chain) > 0
  /\ heap[chain[1]].offset = 0
  /\ \A i \in 1 .. Len(chain) - 1 :
       heap[chain[i]].offset + heap[chain[i]].size = heap[chain[i + 1]].offset
  /\ heap[chain[Len(chain)]].offset + heap[chain[Len(chain)]].size = pool_size

Bootstrapped == pool_size > 0 /\ halt = "none"

ValidRequest(c) ==
  is_pow_two(c.alignment) /\ c.size >= MIN_ALLOC_SIZE /\ c.size <= pool_size

\* the state the bootstrap leaves, whichever record holds the block
FreshPool ==
  \E b \in Live :
    /\ Live = {b}
    /\ heap[b] = [size |-> pool_size, offset |-> 0, next_free |-> NoBlock,
                  prev_free |-> NoBlock, next_physical |-> NoBlock,
                  prev_physical |-> NoBlock]
    /\ bins = [k \in {binmap_down(pool_size).idx} |-> b]
    /\ bin_bitmap = {binmap_down(pool_size).bin_idx}
    /\ sub_bin_bitmap = [i \in {binmap_down(pool_size).bin_idx} |->
                           {binmap_down(pool_size).sub_bin_idx}]
    /\ num_allocation = 0
    /\ num_free_block = 1

\* the regions [offset, offset + size) of blocks a and b share no byte
Disjoint(a, b) ==
  \/ heap[a].offset + heap[a].size <= heap[b].offset
  \/ heap[b].offset + heap[b].size <= heap[a].offset

\* the free lists block b is a member of
ListsOf(b) == {k \in DOMAIN bins : \E i \in 1 .. Len(FreeList(k)) : FreeList(k)[i] = b}

\* ---------------------------------------------------------------- claims

\* C1: on a bootstrapped pool, after any sequence of allocate and deallocate
\* calls, the blocks walked from the first block through next_physical have
\* contiguous, non-overlapping regions that cover [0, pool_size) exactly.
C1_PhysicalChainPartitionsPool ==
  Bootstrapped =>
    \E f \in PhysFirst : PhysFirst = {f} /\ Partitions(PhysWalk(f, MaxBlocks + 1))

\* C2: on a bootstrapped pool, no two neighbours of the physical chain are both
\* members of a free list.
C2_NoAdjacentFreeBlocks ==
  Bootstrapped =>
    \A b \in Live :
      heap[b].next_physical \in Live =>
        ~(b \in FreeMembers /\ heap[b].next_physical \in FreeMembers)

\* C3: the offset recorded in the block a successful allocate(size, alignment)
\* returns, alignment a power of two, is a multiple of alignment.
C3_ReturnedOffsetAligned ==
  (halt = "none" /\ last.op = "allocate" /\ last.ret # NoBlock
     /\ is_pow_two(last.alignment))
    => heap[last.ret].offset % last.alignment = 0

\* C4: after N successful allocate calls followed by deallocate of all N blocks,
\* in any order, the allocator is in the state the bootstrap left.
C4_FullDeallocateRestoresFresh ==
  (Bootstrapped /\ last.op = "deallocate" /\ handles = {}) => FreshPool

\* C5: allocate rejects, leaving the allocator unchanged, every request whose
\* alignment is not a power of two or whose size is below MIN_ALLOC_SIZE.
C5_InvalidRequestRejected ==
  [][(last'.op = "allocate"
        /\ (~is_pow_two(last'.alignment) \/ last'.size < MIN_ALLOC_SIZE))
      => (last'.ret = NoBlock
            /\ UNCHANGED <<heap, bins, bin_bitmap, sub_bin_bitmap,
                           num_allocation, num_free_block>>)]_vars

\* C6: when allocate fails on a valid request, every block that was in a free
\* list is still in the same free list, and the bitmaps and num_free_block are
\* unchanged.
C6_FailedAllocateLosesNoBlock ==
  [][(Bootstrapped /\ last'.op = "allocate" /\ ValidRequest(last')
        /\ last'.ret = NoBlock /\ halt' = "none")
      => (FreeLists' = FreeLists
            /\ UNCHANGED <<bin_bitmap, sub_bin_bitmap, num_free_block>>)]_vars

\* C7: right after construction the allocator holds one free block spanning the
\* pool, filed at the head of its class with the class's bits set.
C7_ConstructionBootstrapsPool ==
  last.op = "new" =>
    \E b \in Live :
      /\ Live = {b}
      /\ heap[b].offset = 0 /\ heap[b].size >= MIN_ALLOC_SIZE /\ is_free(Self, b)
      /\ BinsGet(Self, binmap_down(heap[b].size).idx) = b
      /\ binmap_down(heap[b].size).bin_idx \in bin_bitmap
      /\ binmap_down(heap[b].size).sub_bin_idx
           \in SubGet(Self, binmap_down(heap[b].size).bin_idx)

\* C8: bit i of bin_bitmap is set iff sub_bin_bitmap[i] is not 0, and bit j of
\* sub_bin_bitmap[i] is set iff bins[i * 32 + j] is not empty.
C8_BitmapsMatchBins ==
  \A i \in 0 .. BIN_COUNT - 1 :
    /\ (i \in bin_bitmap) <=> (SubGet(Self, i) # {})
    /\ \A j \in 0 .. SUB_BIN_COUNT - 1 :
         (j \in SubGet(Self, i)) <=> (BinsGet(Self, i * SUB_BIN_COUNT + j) # NoBlock)

\* allocate took a head that had a successor: the successor heads the class and
\* the class's bits are still set
C8_HeadWithSuccessorRemoved ==
  /\ halt = "none"
  /\ last.op = "allocate" /\ last.ret # NoBlock
  /\ last.succ \in Live
  /\ BinsGet(Self, last.idx) = last.succ
  /\ (last.idx % SUB_BIN_COUNT) \in SubGet(Self, last.idx \div SUB_BIN_COUNT)
  /\ (last.idx \div SUB_BIN_COUNT) \in bin_bitmap

\* C9: every block reachable from bins[k] through next_free is filed under its
\* own size's class, binmap_down(size).idx = k, and every list is a consistent
\* doubly-linked list.
C9_FreeListsWellFormed ==
  Bootstrapped =>
    \A k \in DOMAIN bins :
      /\ Len(FreeList(k)) <= MaxBlocks
      /\ \A i \in 1 .. Len(FreeList(k)) :
           /\ FreeList(k)[i] \in Live
           /\ binmap_down(heap[FreeList(k)[i]].size).idx = k
           /\ heap[FreeList(k)[i]].prev_free =
                (IF i = 1 THEN NoBlock ELSE FreeList(k)[i - 1])

\* C10: num_allocation is the number of blocks allocate returned and deallocate
\* has not taken back; num_free_block is the number of blocks in a free list.
C10_CountersMatch ==
  Bootstrapped =>
    /\ num_allocation = Cardinality(handles)
    /\ num_free_block = Cardinality(FreeMembers)

\* C11: allocate takes the head of the winning free list, the block inserted
\* last (LIFO): allocate(s, a), deallocate of the returned block and a second
\* allocate(s, a) return the same block at the same offset as the first.
C11_ReallocateSameOffset ==
  (halt = "none" /\ last.op = "allocate_again") =>
    /\ last.ret # NoBlock
    /\ last.ret \in Live
    /\ heap[last.ret].offset = last.first_offset

\* the mapper on model integers and the mapper on the full usize range agree
\* wherever both apply
MapperAgrees ==
  (last.op = "binmap" /\ last.size \subseteq 0 .. 20) =>
    /\ [last.up EXCEPT !.rounded_size = Narrow(@)] = binmap_up(Narrow(last.size))
    /\ [last.round EXCEPT !.rounded_size = Narrow(@)]
         = binmap_down(binmap_up(Narrow(last.size)).rounded_size)

\* C12: for every size s with MIN_ALLOC_SIZE <= s <= 2^62, binmap_up(s).rounded_size
\* is at least s, and binmap_down of that rounded size gives the bin_idx,
\* sub_bin_idx and idx of binmap_up(s).
C12_MappingRoundTrip ==
  (last.op = "binmap" /\ WideGeq(last.size, Wide(MIN_ALLOC_SIZE))
     /\ WideGeq({62}, last.size)) =>
    /\ WideGeq(last.up.rounded_size, last.size)
    /\ last.round.bin_idx = last.up.bin_idx
    /\ last.round.sub_bin_idx = last.up.sub_bin_idx
    /\ last.round.idx = last.up.idx

\* a size beyond 2^38 that the rounding carries into the next bin
C12_RoundedIntoNextBin ==
  /\ last.op = "binmap"
  /\ WideGeq(last.size, {38}) /\ WideGeq({62}, last.size)
  /\ last.up.rounded_size # last.size
  /\ last.up.bin_idx = binmap_down64(last.size).bin_idx + 1
  /\ last.up.sub_bin_idx = 0
  /\ last.round.idx = last.up.idx

\* C13: for every request size s and every block size b >= binmap_up(s).rounded_size,
\* binmap_down(b).idx >= binmap_up(s).idx.
C13_LargeEnoughBlockNotBelow ==
  (last.op = "binmap" /\ WideGeq(last.block_size, last.up.rounded_size)) =>
    last.down.idx >= last.up.idx

\* C13 as amended: the same for every request size s whose rounding fits a
\* usize (size + next_subbin_offset < 2^64, that is s <= 2^64 - 2^58).
C13_LargeEnoughBlockNotBelowInRange ==
  (last.op = "binmap" /\ ~binmap_up64Overflows(last.size)
     /\ WideGeq(last.block_size, last.up.rounded_size)) =>
    last.down.idx >= last.up.idx

\* a block of exactly the rounded size of a request that was rounded up: it
\* is filed in the very class the search starts from
C13_BlockOfRoundedSize ==
  /\ last.op = "binmap"
  /\ ~binmap_up64Overflows(last.size)
  /\ last.block_size = last.up.rounded_size
  /\ last.block_size # last.size
  /\ last.down.idx = last.up.idx
  /\ binmap_down64(last.size).idx < last.up.idx

\* the first call on the fresh pool of the concrete scenarios was
\* allocate(200, 256)
FirstAllocate200Aligned256 ==
  /\ halt = "none"
  /\ pool_size = ScenarioPool
  /\ calls = 1
  /\ last.op = "allocate" /\ last.size = 200 /\ last.alignment = 2 * MIN_ALLOC_SIZE

\* C14: on a fresh pool of 4096 bytes, allocate(200, 256) returns a block at
\* offset 256, the bytes [0, 256) being padding inside the allocated block.
C14_FreshPoolAligned256AtOffset256 ==
  FirstAllocate200Aligned256 =>
    /\ last.ret \in Live
    /\ heap[last.ret].offset = 2 * MIN_ALLOC_SIZE
    /\ \A b \in Live \ {last.ret} : heap[b].offset >= 2 * MIN_ALLOC_SIZE

\* C14 as amended: on a fresh pool of 4096 bytes, allocate(200, 256) returns a
\* block at offset 0, which is a multiple of 256: no padding is consumed, the
\* block has size 200 and the remainder [200, 4096) is one free block.
C14_FreshPoolAligned256AtOffset0 ==
  FirstAllocate200Aligned256 =>
    /\ last.ret \in Live
    /\ heap[last.ret].offset = 0
    /\ heap[last.ret].size = 200
    /\ \E t \in FreeMembers \cap Live :
         /\ Live = {last.ret, t}
         /\ heap[last.ret].next_physical = t
         /\ heap[t].offset = 200
         /\ heap[t].size = ScenarioPool - 200

\* the fresh pool served allocate(200, 256) with a block at a multiple of 256
C14_Served200Aligned256 ==
  /\ FirstAllocate200Aligned256
  /\ last.ret \in Live
  /\ heap[last.ret].offset % (2 * MIN_ALLOC_SIZE) = 0
  /\ handles = {last.ret}

\* C15: the regions [offset, offset + size) of the blocks allocate returned and
\* deallocate has not taken back are pairwise disjoint, lie inside
\* [0, pool_size), and meet the region of no block that is in a free list.
C15_AllocatedRegionsDisjoint ==
  Bootstrapped =>
    \A a \in handles :
      /\ a \in Live
      /\ heap[a].offset >= 0
      /\ heap[a].offset + heap[a].size <= pool_size
      /\ \A b \in handles \ {a} : b \in Live => Disjoint(a, b)
      /\ \A f \in (FreeMembers \cap Live) \ {a} : Disjoint(a, f)

\* C16: between public operations, for every block b, is_free(b) is true iff b
\* is a member of exactly one free list, and false iff b is allocated (also
\* for free blocks that are not the head of their list and for blocks a
\* failed allocate removed from a list).
C16_IsFreeIffListMember ==
  Bootstrapped =>
    \A b \in Live :
      /\ is_free(Self, b) <=> (Cardinality(ListsOf(b)) = 1)
      /\ (~is_free(Self, b)) <=> (b \in handles)

\* the classes from index from up whose free list is not empty
PopulatedFrom(from) == {k \in DOMAIN bins : k >= from}

\* C17: for every request size s and every bitmap state that satisfies the
\* bitmap invariants, find_free_block(s) returns the smallest flat index
\* k >= binmap_up(s).idx whose free list is non-empty, and the OutOfFreeBlock
\* error exactly when no class from binmap_up(s).idx up is populated.
C17_FindsSmallestPopulatedClass ==
  (last.op = "find_free_block" /\ C8_BitmapsMatchBins) =>
    /\ halt = "none"
    /\ last.ok <=> (PopulatedFrom(last.from) # {})
    /\ last.ok => /\ last.idx \in PopulatedFrom(last.from)
                  /\ \A k \in PopulatedFrom(last.from) : last.idx <= k

\* C20: bin_bitmap gives each of the 57 bins its own bit: for every block
\* size up to 2^62 the shifts 1 << bin_idx of insert_free_block and
\* remove_free_block and the mask !0 << (bin_idx + 1) of find_free_block stay
\* within the word, and two different bins never share a bit.
C20_EveryBinHasItsOwnBit ==
  /\ halt # "panic"
  /\ bin_bitmap = {k \div SUB_BIN_COUNT : k \in DOMAIN bins}

\* C18: when use_free_block splits block B (B.size >= required + MIN_ALLOC_SIZE,
\* required = size + adjustment), the tail T has T.size = B.size - required and
\* T.offset = B.offset + required (B's values before the call), and T is
\* spliced in right after B: B.next_physical = T, T.prev_physical = B,
\* T.next_physical = B's original next_physical (none when B was the last
\* block), and that successor's prev_physical = T.
C18_SplitWiresTail ==
  [][(halt' = "none" /\ last'.op = "allocate" /\ last'.ret \in DOMAIN heap
        /\ DOMAIN heap' # DOMAIN heap)
      => LET B == last'.ret
             T == CHOOSE t \in DOMAIN heap' \ DOMAIN heap : TRUE
             required == last'.size
                           + (align_forward(heap[B].offset, last'.alignment)
                                - heap[B].offset)
             successor == heap[B].next_physical
         IN /\ heap[B].size >= required + MIN_ALLOC_SIZE
            /\ heap'[T].size = heap[B].size - required
            /\ heap'[T].offset = heap[B].offset + required
            /\ heap'[B].next_physical = T
            /\ heap'[T].prev_physical = B
            /\ heap'[T].next_physical = successor
            /\ successor # NoBlock => heap'[successor].prev_physical = T]_vars

\* block p was in a free list when the call was made
WasFree(p) == p \in Live /\ p \in FreeMembers

\* C19: deallocate(b) leaves one free block whose region is the union of b's
\* region and the regions of the physical neighbours of b that were free when
\* the call was made (offset = the lowest offset, size = the sum of the
\* sizes): a free neighbour is absorbed and removed from its free list,
\* whether or not it heads that list, and a neighbour in use is not absorbed
\* and keeps its offset, size and used state.
C19_DeallocateMergesFreeNeighbours ==
  [][(halt' = "none" /\ last'.op = "deallocate")
      => LET b == last'.ret
             p == heap[b].prev_physical
             n == heap[b].next_physical
         IN /\ b \in DOMAIN heap'
            /\ b \in FreeMembers'
            /\ heap'[b].offset = (IF WasFree(p) THEN heap[p].offset ELSE heap[b].offset)
            /\ heap'[b].size = heap[b].size + (IF WasFree(p) THEN heap[p].size ELSE 0)
                                            + (IF WasFree(n) THEN heap[n].size ELSE 0)
            /\ \A f \in {p, n} :
                 /\ WasFree(f) => f \notin FreeMembers'
                 /\ f \in handles =>
                      /\ f \in DOMAIN heap'
                      /\ heap'[f].offset = heap[f].offset
                      /\ heap'[f].size = heap[f].size
                      /\ heap'[f].prev_free = f]_vars

====
